---- MODULE Spec2Model ----
(***************************************************************************)
(* Model of src/search/mod.rs of ssdp-client: search() binds a UDP socket, *)
(* sends one M-SEARCH datagram and returns the response stream             *)
(* read_search_socket(), a loop that races one receive against a timer.    *)
(***************************************************************************)
EXTENDS Integers, Sequences, FiniteSets, TLC

(* ------------------------------ bounds --------------------------------- *)
MaxTime == 2        \* the clock runs over 0..MaxTime
MaxTimeout == 1     \* timeouts given to search() are 0..MaxTimeout ticks
MaxMx == 1          \* mx given to search() is 0..MaxMx
MaxArrivals == 2    \* datagrams the network delivers to the endpoint
MaxErrs == 1        \* receive errors the transport reports

(* ------------------------- program constants --------------------------- *)
BufCap == 2048
bind_addr == [ip |-> <<0, 0, 0, 0>>, port |-> 0]
broadcast_address == [ip |-> <<239, 255, 255, 250>>, port |-> 1900]
CRLF == "\r\n"
INSUFFICIENT_BUFFER_MSG == "buffer size too small, udp packets lost"

Builds == {"debug", "release"}
Timeouts == 0..MaxTimeout
Mxs == 0..MaxMx

(* --------------------------- SearchTarget ------------------------------ *)
SearchTargets ==
    { [v |-> "All"], [v |-> "RootDevice"],
      [v |-> "Device", domain |-> "schemas-upnp-org", type |-> "Basic", version |-> "1"],
      [v |-> "Service", domain |-> "schemas-upnp-org", type |-> "AVTransport", version |-> "1"],
      [v |-> "Custom", text |-> "roku:ecp"] }

\* Display of a SearchTarget: its wire form, as a sequence of text pieces.
SearchTargetEncode(t) ==
    CASE t.v = "All" -> <<"ssdp:all">>
      [] t.v = "RootDevice" -> <<"upnp:rootdevice">>
      [] t.v = "Device" -> <<"urn:", t.domain, ":device:", t.type, ":", t.version>>
      [] t.v = "Service" -> <<"urn:", t.domain, ":service:", t.type, ":", t.version>>
      [] OTHER -> <<t.text>>

\* st.parse(): the wire strings the model's datagrams carry.
SearchTargetDecode(s) ==
    CASE s = "" -> [ok |-> FALSE, err |-> "ParseSearchTarget"]
      [] s = "ssdp:all" -> [ok |-> TRUE, val |-> [v |-> "All"]]
      [] s = "upnp:rootdevice" -> [ok |-> TRUE, val |-> [v |-> "RootDevice"]]
      [] OTHER -> [ok |-> TRUE, val |-> [v |-> "Custom", text |-> s]]

(* --------------------------- parse_headers! ---------------------------- *)
Lower(n) ==
    CASE n \in {"LOCATION", "Location", "location"} -> "location"
      [] n \in {"ST", "St", "st"} -> "st"
      [] n \in {"USN", "Usn", "usn"} -> "usn"
      [] OTHER -> n

\* index of the first line of hdrs whose name is `name` (case-insensitive), 0 if none
FirstIndex(hdrs, name) ==
    LET S == {i \in 1..Len(hdrs) : Lower(hdrs[i][1]) = name}
    IN IF S = {} THEN 0 ELSE CHOOSE i \in S : \A j \in S : i <= j

\* parse_headers!(text => names): values aligned with names, or the first missing name
ParseHeaders(hdrs, names) ==
    LET missing == {k \in 1..Len(names) : FirstIndex(hdrs, names[k]) = 0}
    IN IF missing = {}
       THEN [ok |-> TRUE, vals |-> [k \in 1..Len(names) |-> hdrs[FirstIndex(hdrs, names[k])][2]]]
       ELSE [ok |-> FALSE,
             err |-> <<"MissingHeader", names[CHOOSE k \in missing : \A j \in missing : k <= j]>>]

(* ------------------------------ datagrams ------------------------------ *)
\* A datagram: its length on the wire, whether its bytes are UTF-8, and the
\* Name: Value lines of its text.
HdrsA == << <<"LOCATION", "http://x">>, <<"ST", "ssdp:all">>, <<"USN", "uuid:123">> >>
HdrsB == << <<"usn", "uuid:456">>, <<"Server", "y">>, <<"St", "upnp:rootdevice">>,
            <<"location", "http://y">>, <<"USN", "uuid:789">> >>
HdrsNoUsn == << <<"LOCATION", "http://x">>, <<"ST", "">> >>
HdrsEmptySt == << <<"LOCATION", "http://x">>, <<"ST", "">>, <<"USN", "uuid:123">> >>

Payloads ==
    { [len |-> BufCap - 1, utf8 |-> TRUE, hdrs |-> HdrsB],
      [len |-> 60, utf8 |-> TRUE, hdrs |-> HdrsA],
      [len |-> 10, utf8 |-> FALSE, hdrs |-> <<>>],
      [len |-> 40, utf8 |-> TRUE, hdrs |-> HdrsNoUsn],
      [len |-> 50, utf8 |-> TRUE, hdrs |-> HdrsEmptySt],
      [len |-> BufCap, utf8 |-> TRUE, hdrs |-> HdrsA],
      [len |-> BufCap + 1, utf8 |-> FALSE, hdrs |-> <<>>] }

\* a datagram the stream decodes into an Ok item
Valid(p) ==
    /\ p.len < BufCap
    /\ p.utf8
    /\ ParseHeaders(p.hdrs, <<"location", "st", "usn">>).ok
    /\ SearchTargetDecode(ParseHeaders(p.hdrs, <<"location", "st", "usn">>).vals[2]).ok

Min(a, b) == IF a <= b THEN a ELSE b

(* ------------------------------- state --------------------------------- *)
VARIABLES
    build,        \* "debug" (debug_assertions) or "release"
    search_target, timeout, mx,   \* the arguments of search()
    pc,           \* position of search(): "start", "bound", "returned", "failed"
    socket,       \* the UdpSocket: "none", "bound", "released"
    sent,         \* datagrams handed to send_to, in order
    stream,       \* the response stream: "none", "created" (not polled yet),
                  \* "recv" (receive pending), "yielded" (item handed out),
                  \* "Closed", "dropped", "panicked"
    buf,          \* the receive buffer of the current iteration
    started,      \* time at which the timer of the pending receive was created
    inq,          \* datagrams queued at the endpoint, oldest first
    items,        \* items the stream has yielded, in order
    warnings,     \* messages given to log::warn!
    now,          \* the clock
    recvs,        \* number of recv_from calls made so far
    arrived,      \* every datagram delivered to the endpoint, in order
    errs,         \* kinds of the receive errors the transport reported
    firstPoll,    \* time of the first poll of the stream, -1 before it
    closedAt,     \* time at which the stream ended, -1 before it
    closeCause,   \* "none", "timer", "transport", "panic", "drop"
    lost,         \* datagrams that reached the address after the endpoint was released
    stalled,      \* time has passed while an item waited for the consumer's next poll
    pair          \* two concurrent searches: the state of each, by search

vars == <<build, search_target, timeout, mx, pc, socket, sent, stream, buf, started,
          inq, items, warnings, now, recvs, arrived, errs, firstPoll, closedAt, closeCause, lost,
          stalled, pair>>

inputs == <<build, search_target, timeout, mx>>
history == <<arrived, errs, lost>>
clock == <<now, stalled>>

FreshBuf == [data |-> "zero", read |-> 0]
Listening == {"created", "recv", "yielded"}

\* the state before search(t, timeout, m) runs, for t in targets and m in mxs
InitWith(targets, mxs) ==
    /\ build \in Builds
    /\ search_target \in targets
    /\ timeout \in Timeouts
    /\ mx \in mxs
    /\ pc = "start"
    /\ socket = "none"
    /\ sent = <<>>
    /\ stream = "none"
    /\ buf = FreshBuf
    /\ started = 0
    /\ inq = <<>>
    /\ items = <<>>
    /\ warnings = <<>>
    /\ now = 0
    /\ recvs = 0
    /\ arrived = <<>>
    /\ errs = <<>>
    /\ firstPoll = -1
    /\ closedAt = -1
    /\ closeCause = "none"
    /\ lost = 0
    /\ stalled = FALSE

\* the response stream is followed for one query; every query is covered by InitQuery
Init == InitWith({[v |-> "RootDevice"]}, {MaxMx}) /\ pair = <<>>

InitQuery == InitWith(SearchTargets, Mxs) /\ pair = <<>>

(* ------------------------------ search() ------------------------------- *)
\* the query with a bare line feed closing the message instead of the blank CRLF line
FormatQueryNoBlankLine(t, m) ==
    <<"M-SEARCH * HTTP/1.1", CRLF, "Host:239.255.255.250:1900", CRLF,
      "Man:\"ssdp:discover\"", CRLF, "ST: ">> \o SearchTargetEncode(t)
      \o <<CRLF, "MX: ", ToString(m), CRLF, "\n">>

\* the query with mx lowered to the timeout when it exceeds it
FormatQueryClamped(t, m) ==
    <<"M-SEARCH * HTTP/1.1", CRLF, "Host:239.255.255.250:1900", CRLF,
      "Man:\"ssdp:discover\"", CRLF, "ST: ">> \o SearchTargetEncode(t)
      \o <<CRLF, "MX: ", ToString(Min(m, timeout)), CRLF, CRLF>>

\* format!("M-SEARCH * HTTP/1.1\r\nHost:...\r\nMan:...\r\nST: {}\r\nMX: {}\r\n\r\n", search_target, mx)
FormatQuery(t, m) ==
    <<"M-SEARCH * HTTP/1.1", CRLF, "Host:239.255.255.250:1900", CRLF,
      "Man:\"ssdp:discover\"", CRLF, "ST: ">> \o SearchTargetEncode(t)
      \o <<CRLF, "MX: ", ToString(m), CRLF, CRLF>>

\* UdpSocket::bind(&bind_addr)? : a failure returns Err before anything is sent
Bind(ok) ==
    /\ pc = "start"
    /\ IF ok
       THEN /\ pc' = "bound"
            /\ socket' = "bound"
       ELSE /\ pc' = "failed"
            /\ socket' = "none"
    /\ UNCHANGED <<pair, inputs, sent, stream, buf, started, inq, items, warnings, clock, recvs,
                   history, firstPoll, closedAt, closeCause>>

\* send_to without the `?`: the stream is handed out whatever the send returned
SendToUnchecked(ok) ==
    /\ pc = "bound"
    /\ sent' = Append(sent, [from |-> bind_addr, to |-> broadcast_address,
                             bytes |-> FormatQuery(search_target, mx), ok |-> ok])
    /\ pc' = "returned"
    /\ stream' = "created"
    /\ UNCHANGED <<socket, inq>>
    /\ UNCHANGED <<pair, inputs, buf, started, items, warnings, clock, recvs,
                   history, firstPoll, closedAt, closeCause>>

\* socket.send_to(msg, &broadcast_address).await? ; Ok(read_search_socket(socket, timeout))
SendTo(ok) ==
    /\ pc = "bound"
    /\ sent' = Append(sent, [from |-> bind_addr, to |-> broadcast_address,
                             bytes |-> FormatQuery(search_target, mx), ok |-> ok])
    /\ IF ok
       THEN /\ pc' = "returned"
            /\ stream' = "created"
            /\ UNCHANGED <<socket, inq>>
       ELSE /\ pc' = "failed"
            /\ socket' = "released"
            /\ inq' = <<>>
            /\ UNCHANGED stream
    /\ UNCHANGED <<pair, inputs, buf, started, items, warnings, clock, recvs,
                   history, firstPoll, closedAt, closeCause>>

(* ------------------------ read_search_socket() ------------------------- *)
\* the Delay made by .timeout(timeout) for the pending receive has elapsed
TimerExpired == now >= started + timeout

\* the new item put in front of the ones already handed out
EmitFront(its, it) == <<it>> \o its

\* one more item handed to the consumer
Emit(its, it) == Append(its, it)

\* the response with the location and the usn taken from each other's header
OkItemSwapped(d, vals, st, ev) ==
    [kind |-> "Ok", location |-> vals[3], st |-> st, usn |-> vals[1], ev |-> ev, sn |-> d.sn]

\* SearchResponse { location, st, usn }, lines 88-92
OkItem(d, vals, st, ev) ==
    [kind |-> "Ok", location |-> vals[1], st |-> st, usn |-> vals[3], ev |-> ev, sn |-> d.sn]

ErrItem(e, ev, sn) == [kind |-> "Err", err |-> e, ev |-> ev, sn |-> sn]

\* the headers looked up before the bytes are known to be text
DecodeHeadersFirst(d, ev) ==
    LET h == ParseHeaders(d.hdrs, <<"location", "st", "usn">>)
    IN IF ~h.ok THEN ErrItem(h.err, ev, d.sn)
       ELSE IF ~d.utf8 THEN ErrItem("Utf8", ev, d.sn)
       ELSE LET t == SearchTargetDecode(h.vals[2])
            IN IF ~t.ok THEN ErrItem(t.err, ev, d.sn)
               ELSE OkItem(d, h.vals, t.val, ev)

\* lines 81-92: from_utf8, parse_headers!, st.parse(), each under try_yield!
Decode(d, ev) ==
    IF ~d.utf8 THEN ErrItem("Utf8", ev, d.sn)
    ELSE LET h == ParseHeaders(d.hdrs, <<"location", "st", "usn">>)
         IN IF ~h.ok THEN ErrItem(h.err, ev, d.sn)
            ELSE LET t == SearchTargetDecode(h.vals[2])
                 IN IF ~t.ok THEN ErrItem(t.err, ev, d.sn)
                    ELSE OkItem(d, h.vals, t.val, ev)

\* the endpoint is closed when the socket owned by the stream is dropped
Release ==
    /\ socket' = "released"
    /\ inq' = <<>>

\* a loop iteration starts: fresh buffer, recv_from(&mut buf).timeout(timeout)
StartIteration ==
    /\ stream' = "recv"
    /\ buf' = FreshBuf
    /\ started' = now
    /\ recvs' = recvs + 1

\* a stream that can be polled back into its loop after it has ended
PollAgain ==
    /\ stream \in {"created", "yielded", "Closed"}
    /\ StartIteration
    /\ firstPoll' = IF firstPoll = -1 THEN now ELSE firstPoll
    /\ UNCHANGED <<pair, inputs, pc, socket, sent, inq, items, warnings, clock, history,
                   closedAt, closeCause>>

\* the consumer polls the stream: the first poll enters the loop, a later one
\* resumes after a yield and runs into the next iteration
Poll ==
    /\ stream \in {"created", "yielded"}
    /\ StartIteration
    /\ firstPoll' = IF firstPoll = -1 THEN now ELSE firstPoll
    /\ UNCHANGED <<pair, inputs, pc, socket, sent, inq, items, warnings, clock, history,
                   closedAt, closeCause>>

\* the debug variant compiled into every build
HandleAlwaysPanic ==
    /\ stream' = "panicked"
    /\ closeCause' = "panic"
    /\ Release
    /\ UNCHANGED <<buf, started, recvs, warnings>>

\* the release variant compiled into every build
HandleAlwaysWarn ==
    /\ warnings' = Append(warnings, INSUFFICIENT_BUFFER_MSG)
    /\ StartIteration
    /\ inq' = Tail(inq)
    /\ UNCHANGED <<socket, closeCause>>

\* handle_insufficient_buffer_size(): panic! under debug_assertions, log::warn! otherwise
HandleInsufficientBufferSize ==
    IF build = "debug"
    THEN /\ stream' = "panicked"
         /\ closeCause' = "panic"
         /\ Release
         /\ UNCHANGED <<buf, started, recvs, warnings>>
    ELSE /\ warnings' = Append(warnings, INSUFFICIENT_BUFFER_MSG)
         /\ StartIteration
         /\ inq' = Tail(inq)
         /\ UNCHANGED <<socket, closeCause>>

\* try_yield! that continues without yielding: a datagram that fails is skipped in silence
ReceiveSilent ==
    /\ stream = "recv"
    /\ inq # <<>>
    /\ LET d == Head(inq)
           read == Min(d.len, BufCap)
       IN IF read = BufCap
          THEN /\ HandleInsufficientBufferSize
               /\ UNCHANGED items
          ELSE IF Decode(d, recvs).kind = "Err"
          THEN /\ StartIteration
               /\ inq' = Tail(inq)
               /\ UNCHANGED <<items, socket, warnings, closeCause>>
          ELSE /\ items' = Emit(items, Decode(d, recvs))
               /\ stream' = "yielded"
               /\ buf' = [data |-> d, read |-> read]
               /\ inq' = Tail(inq)
               /\ UNCHANGED <<socket, started, recvs, warnings, closeCause>>
    /\ UNCHANGED <<pair, inputs, pc, sent, clock, history, firstPoll, closedAt>>

\* recv_from completes with Ok((read, _)): lines 77-81 and 86-92
Receive ==
    /\ stream = "recv"
    /\ inq # <<>>
    /\ LET d == Head(inq)
           read == Min(d.len, BufCap)
       IN IF read = BufCap
          THEN /\ HandleInsufficientBufferSize
               /\ UNCHANGED items
          ELSE /\ items' = Emit(items, Decode(d, recvs))
               /\ stream' = "yielded"
               /\ buf' = [data |-> d, read |-> read]
               /\ inq' = Tail(inq)
               /\ UNCHANGED <<socket, started, recvs, warnings, closeCause>>
    /\ UNCHANGED <<pair, inputs, pc, sent, clock, history, firstPoll, closedAt>>

\* break: the generator returns and drops the socket
Close(cause) ==
    /\ stream' = "Closed"
    /\ closedAt' = now
    /\ closeCause' = cause
    /\ Release

\* a transport error that lets the loop go on (any kind but TimedOut), mistaken for the end
IsTimedOutAny(kind) == kind \in {"TimedOut", "ConnectionRefused"}

\* the guard of line 82 left out: no error of the transport ends the stream
IsTimedOutNever(kind) == FALSE

\* e.kind() == TimedOut
IsTimedOut(kind) == kind = "TimedOut"

\* a failed receive tried again at once, its error kept from the consumer
RecvErrorRetry(kind) ==
    /\ stream = "recv"
    /\ Len(errs) < MaxErrs
    /\ errs' = Append(errs, kind)
    /\ IF IsTimedOut(kind)
       THEN /\ Close("transport")
            /\ UNCHANGED <<items, buf, started, recvs>>
       ELSE /\ StartIteration
            /\ UNCHANGED <<items, socket, inq, closedAt, closeCause>>
    /\ UNCHANGED <<pair, inputs, pc, sent, warnings, clock, arrived, lost, firstPoll>>

\* recv_from completes with Err(e): lines 82-83
RecvError(kind) ==
    /\ stream = "recv"
    /\ Len(errs) < MaxErrs
    /\ errs' = Append(errs, kind)
    /\ IF IsTimedOut(kind)
       THEN /\ Close("transport")
            /\ UNCHANGED items
       ELSE /\ items' = Emit(items, ErrItem(<<"Io", kind>>, recvs, 0))
            /\ stream' = "yielded"
            /\ UNCHANGED <<socket, inq, closedAt, closeCause>>
    /\ UNCHANGED <<pair, inputs, pc, sent, buf, started, warnings, clock, recvs, arrived, lost,
                   firstPoll>>

\* the timer polled before the receive: it ends the stream over a queued datagram
TimeoutFirst ==
    /\ stream = "recv"
    /\ TimerExpired
    /\ Close("timer")
    /\ UNCHANGED <<pair, inputs, pc, sent, buf, started, items, warnings, clock, recvs, history,
                   firstPoll>>

\* the timer's TimedOut error yielded like any other error before the stream ends
TimeoutAsError ==
    /\ stream = "recv"
    /\ inq = <<>>
    /\ TimerExpired
    /\ items' = Emit(items, ErrItem(<<"Io", "TimedOut">>, recvs, 0))
    /\ Close("timer")
    /\ UNCHANGED <<pair, inputs, pc, sent, buf, started, warnings, clock, recvs, history,
                   firstPoll>>

\* the timer's expiry noted while the loop stays on its pending receive
TimeoutPending ==
    /\ stream = "recv"
    /\ inq = <<>>
    /\ TimerExpired
    /\ closeCause # "timer"
    /\ closeCause' = "timer"
    /\ UNCHANGED <<pair, inputs, pc, socket, sent, stream, buf, started, inq, items, warnings,
                   clock, recvs, history, firstPoll, closedAt>>

\* the receive is still pending when the timer fires: Err of kind TimedOut, line 82
Timeout ==
    /\ stream = "recv"
    /\ inq = <<>>
    /\ TimerExpired
    /\ Close("timer")
    /\ UNCHANGED <<pair, inputs, pc, sent, buf, started, items, warnings, clock, recvs, history,
                   firstPoll>>

\* the stream dropped while the socket stays open
DropLeak ==
    /\ stream \in Listening
    /\ stream' = "dropped"
    /\ closeCause' = "drop"
    /\ UNCHANGED <<socket, inq>>
    /\ UNCHANGED <<pair, inputs, pc, sent, buf, started, items, warnings, clock, recvs, history,
                   firstPoll, closedAt>>

\* the consumer drops the stream, and with it the socket the stream owns
Drop ==
    /\ stream \in Listening
    /\ stream' = "dropped"
    /\ closeCause' = "drop"
    /\ Release
    /\ UNCHANGED <<pair, inputs, pc, sent, buf, started, items, warnings, clock, recvs, history,
                   firstPoll, closedAt>>

(* ----------------------------- environment ----------------------------- *)
\* the network delivers a datagram to the bound endpoint
Arrive(p) ==
    /\ socket = "bound"
    /\ Len(arrived) < MaxArrivals
    /\ LET d == [sn |-> Len(arrived) + 1, len |-> p.len, utf8 |-> p.utf8, hdrs |-> p.hdrs]
       IN /\ inq' = Append(inq, d)
          /\ arrived' = Append(arrived, d)
    /\ UNCHANGED <<pair, inputs, pc, socket, sent, stream, buf, started, items, warnings, clock,
                   recvs, errs, lost, firstPoll, closedAt, closeCause>>

\* a datagram reaches the address after the endpoint was released: nobody gets it
ArriveLate ==
    /\ socket = "released"
    /\ Len(arrived) + lost < MaxArrivals
    /\ lost' = lost + 1
    /\ UNCHANGED <<pair, inputs, pc, socket, sent, stream, buf, started, inq, items,
                   warnings, clock, recvs, arrived, errs, firstPoll, closedAt, closeCause>>

\* time passes; a task whose timer has fired is woken before the clock moves on.
\* The clock is followed from the first poll of the stream to its end: no timer
\* exists before or after.
Tick ==
    /\ now < MaxTime
    /\ stream \in {"recv", "yielded"}
    /\ ~(stream = "recv" /\ TimerExpired)
    /\ now' = now + 1
    /\ stalled' = (stalled \/ stream = "yielded")
    /\ UNCHANGED <<pair, inputs, pc, socket, sent, stream, buf, started, inq, items, warnings,
                   recvs, history, firstPoll, closedAt, closeCause>>

ErrorKinds == {"TimedOut", "ConnectionRefused"}

Next ==
    \/ \E ok \in BOOLEAN : Bind(ok)
    \/ \E ok \in BOOLEAN : SendTo(ok)
    \/ Poll
    \/ Receive
    \/ \E k \in ErrorKinds : RecvError(k)
    \/ Timeout
    \/ Drop
    \/ \E p \in Payloads : Arrive(p)
    \/ ArriveLate
    \/ Tick

Spec == Init /\ [][Next]_vars

\* search() for every target and mx, with a silent network
NextQuery ==
    \/ \E ok \in BOOLEAN : Bind(ok)
    \/ \E ok \in BOOLEAN : SendTo(ok)
    \/ Poll
    \/ Timeout
    \/ Drop
    \/ Tick

SpecQuery == InitQuery /\ [][NextQuery]_vars

(* ------------------- a consumer that keeps polling -------------------- *)
\* the datagrams followed to the end of the stream: one that is decoded, one
\* that fills the buffer
LivePayloads ==
    { [len |-> 60, utf8 |-> TRUE, hdrs |-> HdrsA],
      [len |-> BufCap, utf8 |-> TRUE, hdrs |-> HdrsA] }

\* time passes; the Delay of a pending receive always gets to run out, also
\* past the horizon of the clock
TickLive ==
    /\ stream \in {"recv", "yielded"}
    /\ IF stream = "recv" THEN ~TimerExpired ELSE now < MaxTime
    /\ now' = now + 1
    /\ stalled' = (stalled \/ stream = "yielded")
    /\ UNCHANGED <<pair, inputs, pc, socket, sent, stream, buf, started, inq, items, warnings,
                   recvs, history, firstPoll, closedAt, closeCause>>

\* the stream in the hands of a consumer that never drops it
NextLive ==
    \/ \E ok \in BOOLEAN : Bind(ok)
    \/ \E ok \in BOOLEAN : SendTo(ok)
    \/ Poll
    \/ Receive
    \/ \E k \in ErrorKinds : RecvError(k)
    \/ Timeout
    \/ \E p \in LivePayloads : Arrive(p)
    \/ ArriveLate
    \/ TickLive

\* the executor runs search() to its return; the consumer keeps polling; the
\* reactor wakes the task for a queued datagram and for a fired timer; time
\* passes. Arrivals and transport errors are the environment's: no fairness.
Fairness ==
    /\ WF_vars(\E ok \in BOOLEAN : Bind(ok))
    /\ WF_vars(\E ok \in BOOLEAN : SendTo(ok))
    /\ WF_vars(Poll)
    /\ WF_vars(Receive)
    /\ WF_vars(Timeout)
    /\ WF_vars(TickLive)

SpecLive == Init /\ [][NextLive]_vars /\ Fairness

(* ----------------------- two concurrent searches ---------------------- *)
MaxPairEvents == 1   \* datagrams and receive errors each of the two searches sees

Searches == {1, 2}

PairPayloads ==
    { [len |-> BufCap - 1, utf8 |-> TRUE, hdrs |-> HdrsB],
      [len |-> BufCap, utf8 |-> TRUE, hdrs |-> HdrsA] }

\* the locals of one search() call and of the stream it returns
NewSearch(t) ==
    [pc |-> "start", socket |-> "none", stream |-> "none", timeout |-> t, started |-> 0,
     inq |-> <<>>, items |-> <<>>, recvs |-> 0, events |-> 0, closedAt |-> -1]

\* every variable of the single search, which stands still while the pair runs
single == <<build, search_target, timeout, mx, pc, socket, sent, stream, buf, started,
            inq, items, warnings, recvs, arrived, errs, firstPoll, closedAt, closeCause,
            lost, stalled>>

InitPair ==
    /\ InitWith({[v |-> "RootDevice"]}, {MaxMx})
    /\ timeout = 0
    /\ pair \in [Searches -> {NewSearch(t) : t \in Timeouts}]

\* the Delay of search i's pending receive has elapsed
PairTimerExpired(i) == now >= pair[i].started + pair[i].timeout

\* search i alone takes the step that changes its locals to s
Only(i, s) ==
    /\ pair' = [pair EXCEPT ![i] = s]
    /\ UNCHANGED <<single, now>>

\* UdpSocket::bind(&bind_addr)? of search i
PairBind(i, ok) ==
    /\ pair[i].pc = "start"
    /\ Only(i, IF ok THEN [pair[i] EXCEPT !.pc = "bound", !.socket = "bound"]
                     ELSE [pair[i] EXCEPT !.pc = "failed"])

\* send_to(...).await? ; Ok(read_search_socket(socket, timeout)) of search i
PairSendTo(i, ok) ==
    /\ pair[i].pc = "bound"
    /\ Only(i, IF ok THEN [pair[i] EXCEPT !.pc = "returned", !.stream = "created"]
                     ELSE [pair[i] EXCEPT !.pc = "failed", !.socket = "released",
                                          !.inq = <<>>])

\* one timer shared by the searches: an iteration of stream i restarts it for all
PairStartShared(i, s) ==
    /\ pair' = [j \in Searches |->
                  IF j = i THEN [s EXCEPT !.stream = "recv", !.started = now, !.recvs = @ + 1]
                  ELSE [pair[j] EXCEPT !.started = now]]
    /\ UNCHANGED <<single, now>>

\* a loop iteration of stream i starts: recv_from(&mut buf).timeout(timeout)
PairStart(i, s) ==
    Only(i, [s EXCEPT !.stream = "recv", !.started = now, !.recvs = @ + 1])

\* the consumer polls stream i
PairPoll(i) ==
    /\ pair[i].stream \in {"created", "yielded"}
    /\ PairStart(i, pair[i])

\* recv_from of stream i completes with a datagram
PairReceive(i) ==
    /\ pair[i].stream = "recv"
    /\ pair[i].inq # <<>>
    /\ LET s == pair[i]
           d == Head(s.inq)
       IN IF Min(d.len, BufCap) = BufCap
          THEN IF build = "debug"
               THEN Only(i, [s EXCEPT !.stream = "panicked", !.socket = "released",
                                      !.inq = <<>>])
               ELSE PairStart(i, [s EXCEPT !.inq = Tail(@)])
          ELSE Only(i, [s EXCEPT !.stream = "yielded", !.inq = Tail(@),
                                 !.items = Emit(@, [to |-> d.to, item |-> Decode(d, s.recvs)])])

\* recv_from of stream i completes with an error
PairRecvError(i, kind) ==
    /\ pair[i].stream = "recv"
    /\ pair[i].events < MaxPairEvents
    /\ LET s == [pair[i] EXCEPT !.events = @ + 1]
       IN IF IsTimedOut(kind)
          THEN Only(i, [s EXCEPT !.stream = "Closed", !.socket = "released", !.inq = <<>>,
                                 !.closedAt = now])
          ELSE Only(i, [s EXCEPT !.stream = "yielded",
                                 !.items = Emit(@, [to |-> i,
                                                    item |-> ErrItem(<<"Io", kind>>, s.recvs, 0)])])

\* the timer of stream i fires while its receive is pending
PairTimeout(i) ==
    /\ pair[i].stream = "recv"
    /\ pair[i].inq = <<>>
    /\ PairTimerExpired(i)
    /\ Only(i, [pair[i] EXCEPT !.stream = "Closed", !.socket = "released", !.closedAt = now])

\* the consumer drops stream i
PairDrop(i) ==
    /\ pair[i].stream \in Listening
    /\ Only(i, [pair[i] EXCEPT !.stream = "dropped", !.socket = "released", !.inq = <<>>])

\* the network delivers a datagram to the endpoint of search i
PairArrive(i, p) ==
    /\ pair[i].socket = "bound"
    /\ pair[i].events < MaxPairEvents
    /\ LET d == [sn |-> pair[i].events + 1, to |-> i, len |-> p.len, utf8 |-> p.utf8,
                 hdrs |-> p.hdrs]
       IN Only(i, [pair[i] EXCEPT !.events = @ + 1, !.inq = Append(@, d)])

\* time passes for both searches; no fired timer is left waiting
PairTick ==
    /\ now < MaxTime
    /\ \A i \in Searches : ~(pair[i].stream = "recv" /\ PairTimerExpired(i))
    /\ now' = now + 1
    /\ UNCHANGED <<single, pair>>

NextPair ==
    \/ \E i \in Searches, ok \in BOOLEAN : PairBind(i, ok)
    \/ \E i \in Searches, ok \in BOOLEAN : PairSendTo(i, ok)
    \/ \E i \in Searches : PairPoll(i)
    \/ \E i \in Searches : PairReceive(i)
    \/ \E i \in Searches, k \in ErrorKinds : PairRecvError(i, k)
    \/ \E i \in Searches : PairTimeout(i)
    \/ \E i \in Searches : PairDrop(i)
    \/ \E i \in Searches, p \in PairPayloads : PairArrive(i, p)
    \/ PairTick

SpecPair == InitPair /\ [][NextPair]_vars

(* ------------------------- steps, as observed -------------------------- *)
Last(s) == s[Len(s)]

\* a step in which the pending receive completes with the datagram at the head of the queue
DatagramStep ==
    /\ stream = "recv"
    /\ inq # <<>>
    /\ inq' # inq
    /\ arrived' = arrived
    /\ errs' = errs
    /\ stream' # "dropped"

\* a step in which the pending receive completes with a transport error
ErrorStep == errs' # errs

\* the step hands exactly one more item to the consumer, of the given kind
EmitsOne(kind) ==
    /\ Len(items') = Len(items) + 1
    /\ SubSeq(items', 1, Len(items)) = items
    /\ Last(items').kind = kind

(* ------------------------------- claims -------------------------------- *)

\* C1: the stream reaches Closed no later than `timeout` after its first poll
\* (one total window, not restarted when a datagram arrives), for a consumer
\* that polls again as soon as it is handed an item.
C1_TotalWindow == (stream = "Closed" /\ ~stalled) => closedAt <= firstPoll + timeout

\* C2: every per-datagram failure (bytes not UTF-8, a required header missing,
\* an ST that does not decode, a transport error other than TimedOut) yields
\* exactly one Err item and leaves the stream Listening, and a valid datagram
\* received by a Listening stream yields an Ok item whatever failed before it.
C2_FailuresIsolated ==
    [][ /\ ( \/ DatagramStep /\ Head(inq).len < BufCap /\ ~Valid(Head(inq))
             \/ ErrorStep /\ Last(errs') # "TimedOut" )
           => EmitsOne("Err") /\ stream' \in Listening
        /\ (DatagramStep /\ Valid(Head(inq)))
           => EmitsOne("Ok") /\ Last(items').sn = Head(inq).sn /\ stream' \in Listening
      ]_vars

\* an Ok item was yielded after an Err item
C2_Witness ==
    \E i, j \in 1..Len(items) : i < j /\ items[i].kind = "Err" /\ items[j].kind = "Ok"

\* C3: N valid datagrams delivered and then silence: once the stream has ended
\* it has yielded exactly N items, all Ok, in the order of the datagrams.
C3_ValidInOrder ==
    (stream = "Closed" /\ errs = <<>> /\ \A i \in 1..Len(arrived) : Valid(arrived[i]))
    => /\ Len(items) = Len(arrived)
       /\ \A i \in 1..Len(items) : items[i].kind = "Ok" /\ items[i].sn = arrived[i].sn

\* the stream ended after MaxArrivals valid datagrams and nothing else
C3_Witness ==
    /\ stream = "Closed"
    /\ errs = <<>>
    /\ Len(arrived) = MaxArrivals
    /\ \A i \in 1..Len(arrived) : Valid(arrived[i])
    /\ Len(items) = MaxArrivals

\* C4: a failed bind returns Err before any send, a failed send returns Err;
\* either way no stream exists and no receive is made; a stream exists only
\* after a bind and a send that both succeeded.
C4_NoStreamAfterFailedSetup ==
    /\ pc = "failed" => stream = "none" /\ recvs = 0 /\ socket # "bound"
    /\ (pc = "failed" /\ socket = "none") => sent = <<>>
    /\ stream # "none" => pc = "returned" /\ Len(sent) = 1 /\ sent[1].ok
    /\ recvs > 0 => stream # "none"

\* search() returned Err because the send failed
C4_Witness == pc = "failed" /\ Len(sent) = 1 /\ ~sent[1].ok /\ stream = "none"

\* a receive that ends with an error of kind TimedOut: the timer fired while
\* the receive was pending, or the transport reported the kind itself
TimedOutStep ==
    /\ stream = "recv"
    /\ stream' = "Closed"
    /\ \/ errs' = errs /\ TimerExpired /\ inq = <<>>
       \/ ErrorStep /\ Last(errs') = "TimedOut"

\* the consumed stream stops listening in this step
EndStep == stream \in Listening /\ stream' \notin (Listening \cup {"dropped"})

\* C5 (as stated): in every run the timeout, and nothing else, takes a consumed
\* stream out of Listening, and it emits no Err item.
C5_OnlyTimeoutEnds == [][EndStep => TimedOutStep /\ items' = items]_vars

\* C5 (amended): a consumed stream leaves Listening only through a receive that
\* ends in TimedOut or, in a debug build, through the abort on a datagram that
\* fills the buffer; neither emits an item.
C5_TimeoutOrDebugAbort ==
    [][EndStep =>
         /\ items' = items
         /\ \/ TimedOutStep
            \/ /\ build = "debug"
               /\ stream' = "panicked"
               /\ DatagramStep
               /\ Head(inq).len >= BufCap ]_vars

\* the timer ended a stream that had survived a transport error
C5_Witness ==
    /\ stream = "Closed"
    /\ closeCause = "timer"
    /\ errs # <<>>
    /\ \E i \in 1..Len(items) : items[i].kind = "Err"

\* C6: in a release build a datagram that fills the buffer yields no item,
\* logs one warning and leaves the receive loop running; valid datagrams
\* received after it still yield Ok items.
C6_ReleaseOverflow ==
    [][ /\ (build = "release" /\ DatagramStep /\ Head(inq).len >= BufCap)
           => /\ items' = items
              /\ warnings' = Append(warnings, INSUFFICIENT_BUFFER_MSG)
              /\ stream' = "recv"
        /\ (build = "release" /\ warnings # <<>> /\ DatagramStep /\ Valid(Head(inq)))
           => EmitsOne("Ok") /\ Last(items').sn = Head(inq).sn
      ]_vars

\* a release build yielded an Ok item for the datagram that followed a full one
C6_Witness ==
    /\ build = "release"
    /\ Len(warnings) = 1
    /\ Len(arrived) >= 2 /\ arrived[1].len = BufCap
    /\ Len(items) = 1 /\ items[1].kind = "Ok" /\ items[1].sn = 2

\* C7: in a debug build a datagram that fills the buffer aborts the run at that
\* receive: no item for it, no receive and no item afterwards; a release build
\* never aborts.
C7_DebugOverflowFatal ==
    /\ [][ (build = "debug" /\ DatagramStep /\ Head(inq).len >= BufCap)
           => stream' = "panicked" /\ items' = items /\ recvs' = recvs ]_vars
    /\ [][ stream = "panicked"
           => stream' = "panicked" /\ items' = items /\ recvs' = recvs ]_vars
    /\ [](build = "release" => stream # "panicked")

\* a debug build aborted on the datagram that followed a valid one
C7_Witness ==
    /\ build = "debug"
    /\ stream = "panicked"
    /\ Len(items) = 1
    /\ Len(arrived) = 2 /\ arrived[2].len >= BufCap

\* C8: once the consumer has dropped the stream, the endpoint is released and
\* no receive is made on it.
C8_DropReleases ==
    /\ [](stream = "dropped" => socket = "released" /\ inq = <<>>)
    /\ [][ stream = "dropped"
           => stream' = "dropped" /\ recvs' = recvs /\ items' = items ]_vars

\* the stream was dropped after its first poll and before any timeout
C8_Witness == stream = "dropped" /\ recvs > 0 /\ closedAt = -1 /\ socket = "released"

Line(pieces) == pieces \o <<CRLF>>

\* C9: search() sends one datagram, from 0.0.0.0:0 to 239.255.255.250:1900,
\* made of the five CRLF-terminated lines of the query and one empty line.
C9_QueryBytes ==
    sent # <<>> =>
        /\ Len(sent) = 1
        /\ sent[1].from = [ip |-> <<0, 0, 0, 0>>, port |-> 0]
        /\ sent[1].to = [ip |-> <<239, 255, 255, 250>>, port |-> 1900]
        /\ sent[1].bytes = Line(<<"M-SEARCH * HTTP/1.1">>)
                           \o Line(<<"Host:239.255.255.250:1900">>)
                           \o Line(<<"Man:\"ssdp:discover\"">>)
                           \o Line(<<"ST: ">> \o SearchTargetEncode(search_target))
                           \o Line(<<"MX: ", ToString(mx)>>)
                           \o Line(<<>>)

\* the query for a device type was sent with the largest mx
C9_Witness == Len(sent) = 1 /\ sent[1].ok /\ search_target.v = "Device" /\ mx = MaxMx

\* datagrams the stream has taken from the endpoint so far
Taken == Len(arrived) - Len(inq)

\* C10: items come out in the order of the receives that caused them, and the
\* stream holds no datagram besides the one in the buffer of its iteration.
C10_ArrivalOrder ==
    /\ \A i, j \in 1..Len(items) :
          i < j => /\ items[i].ev < items[j].ev
                   /\ (items[i].sn > 0 /\ items[j].sn > 0) => items[i].sn < items[j].sn
    /\ \A i \in 1..Len(items) : items[i].ev <= recvs
    /\ socket = "bound" =>
          Taken = Cardinality({i \in 1..Len(items) : items[i].sn > 0}) + Len(warnings)
    /\ stream = "recv" => buf = FreshBuf
    /\ (stream = "yielded" /\ Last(items).sn > 0) => buf.data.sn = Last(items).sn

\* an Err item for a transport error sits between the items of two datagrams
C10_Witness ==
    /\ Len(items) = 3
    /\ items[1].sn = 1 /\ items[2].sn = 0 /\ items[3].sn = 2

\* C11: two concurrent searches share nothing: a step of one search leaves the
\* state and the items of the other unchanged, each stream yields only what
\* reached its own endpoint, and each stream the timer closes ends one own
\* timeout after its own last receive started.
C11_Independent ==
    /\ [][ \A i, j \in Searches :
              (i # j /\ pair'[i] # pair[i]) => pair'[j] = pair[j] ]_vars
    /\ [](\A i \in Searches : \A k \in 1..Len(pair[i].items) : pair[i].items[k].to = i)
    /\ [](\A i \in Searches :
            (pair[i].stream = "Closed" /\ pair[i].events = 0)
            => pair[i].closedAt = pair[i].started + pair[i].timeout)

\* one stream was closed by its timer while the other, polled earlier with a
\* longer timeout, is still listening
C11_Witness ==
    /\ pair[1].stream = "Closed" /\ pair[1].timeout = 0
    /\ pair[2].stream = "recv" /\ pair[2].timeout = MaxTimeout
    /\ pair[2].started < pair[1].started
    /\ pair[2].items # <<>>

\* C12: search() neither checks nor adjusts mx against timeout: it fails only
\* when the bind or the send fails, the MX line carries mx as given, and the
\* stream's timer runs for timeout as given, also when mx exceeds timeout.
C12_MxTimeoutUnrelated ==
    /\ pc = "failed" => \/ socket = "none" /\ sent = <<>>
                        \/ Len(sent) = 1 /\ ~sent[1].ok
    /\ sent # <<>> =>
          \E k \in 1..(Len(sent[1].bytes) - 1) :
              sent[1].bytes[k] = "MX: " /\ sent[1].bytes[k + 1] = ToString(mx)
    /\ (stream = "Closed" /\ closeCause = "timer") => closedAt = started + timeout

\* a search with mx greater than timeout returned a stream, which its timer closed
C12_Witness ==
    /\ mx > timeout
    /\ pc = "returned"
    /\ sent[1].ok
    /\ stream = "Closed" /\ closeCause = "timer"

\* a step that ends an iteration of the loop: its receive has completed
IterationEnd == stream = "recv" /\ (DatagramStep \/ ErrorStep \/ stream' = "Closed")

OutcomeOk == EmitsOne("Ok") /\ stream' \in Listening
OutcomeErr == EmitsOne("Err") /\ stream' \in Listening
OutcomeClosed == stream' = "Closed" /\ items' = items

\* C13 (as stated): every iteration ends with one Ok item and the stream
\* Listening, with one Err item and the stream Listening, or with the stream
\* Closed; none ends without an item while the stream stays Listening.
C13_ThreeOutcomes == [][IterationEnd => OutcomeOk \/ OutcomeErr \/ OutcomeClosed]_vars

\* the iteration received a datagram that fills the buffer: no item; the loop
\* goes on in a release build, the run aborts in a debug build
OutcomeOverflow ==
    /\ DatagramStep
    /\ Head(inq).len >= BufCap
    /\ items' = items
    /\ stream' = IF build = "release" THEN "recv" ELSE "panicked"

\* C13 (amended): every iteration ends in one of the three outcomes or, on a
\* datagram that fills the buffer, without an item (Listening in a release
\* build, aborted in a debug build); a stream is Listening or Closed unless it
\* was dropped or a debug build aborted.
C13_FourOutcomes ==
    /\ [][IterationEnd => OutcomeOk \/ OutcomeErr \/ OutcomeClosed \/ OutcomeOverflow]_vars
    /\ [](stream \in Listening \cup {"none", "Closed", "dropped", "panicked"})
    /\ [](stream = "panicked" => build = "debug")

\* a release build went through all four outcomes: an Ok item, an Err item, a
\* discarded datagram, and the end
C13_Witness ==
    /\ build = "release"
    /\ stream = "Closed"
    /\ warnings # <<>>
    /\ \E i, j \in 1..Len(items) : items[i].kind = "Ok" /\ items[j].kind = "Err"

Required == <<"location", "st", "usn">>

\* C14: a received datagram goes through the checks in the order length, text,
\* headers, ST; a datagram that fills the buffer yields no item, any other one
\* yields exactly one item, which carries the error of the first check that
\* fails, and is Ok only when none fails.
C14_CheckOrder ==
    [][ DatagramStep =>
          LET d == Head(inq)
              h == ParseHeaders(d.hdrs, Required)
          IN /\ Len(items') <= Len(items) + 1
             /\ IF d.len >= BufCap THEN items' = items
                ELSE IF ~d.utf8 THEN EmitsOne("Err") /\ Last(items').err = "Utf8"
                ELSE IF ~h.ok
                     THEN EmitsOne("Err") /\ Last(items').err[1] = "MissingHeader"
                ELSE IF ~SearchTargetDecode(h.vals[2]).ok
                     THEN EmitsOne("Err") /\ Last(items').err = "ParseSearchTarget"
                ELSE EmitsOne("Ok") ]_vars

\* one datagram failed two checks at once and got the error of the earlier one,
\* and a datagram whose ST does not decode got one Err item and no Ok item
C14_Witness ==
    /\ Len(arrived) = 2 /\ Len(items) = 2
    /\ ~arrived[1].utf8 /\ ~ParseHeaders(arrived[1].hdrs, Required).ok
    /\ items[1].err = "Utf8"
    /\ arrived[2].hdrs = HdrsEmptySt
    /\ items[2].kind = "Err" /\ items[2].err = "ParseSearchTarget"

\* C15: search() sends once, after the bind and before any receive, and
\* returns without receiving; the stream never sends; a receive that failed is
\* not tried again before its error has been yielded as an item.
C15_OneSendNoRetry ==
    /\ [](Len(sent) <= 1)
    /\ [](sent # <<>> => socket # "none")
    /\ [](recvs > 0 => Len(sent) = 1 /\ sent[1].ok)
    /\ [](stream = "created" => recvs = 0)
    /\ [][stream # "none" => sent' = sent]_vars
    /\ [][ (ErrorStep /\ Last(errs') # "TimedOut")
           => recvs' = recvs /\ EmitsOne("Err") /\ Last(items').ev = recvs ]_vars

\* the second receive is pending, after the first one failed and its error was yielded
C15_Witness ==
    /\ Len(sent) = 1
    /\ stream = "recv" /\ recvs = 2
    /\ Len(errs) = 1
    /\ Len(items) = 1 /\ items[1].kind = "Err" /\ items[1].ev = 1 /\ items[1].sn = 0

\* C16: each Ok item is built from the datagram received in its own iteration:
\* the buffer is fresh when the receive starts, holds the first `read` bytes of
\* that datagram when the item is yielded, and location, search target and usn
\* are the values of that datagram's location, st and usn headers; no two
\* items come from the same datagram or the same receive.
C16_ItemFromOwnDatagram ==
    /\ \A k \in 1..Len(items) :
          items[k].kind = "Ok" =>
             LET d == arrived[items[k].sn]
             IN /\ d.len < BufCap /\ d.utf8
                /\ d.hdrs \in {HdrsA, HdrsB}
                /\ d.hdrs = HdrsA =>
                      /\ items[k].location = "http://x"
                      /\ items[k].st = [v |-> "All"]
                      /\ items[k].usn = "uuid:123"
                /\ d.hdrs = HdrsB =>
                      /\ items[k].location = "http://y"
                      /\ items[k].st = [v |-> "RootDevice"]
                      /\ items[k].usn = "uuid:456"
    /\ \A k, l \in 1..Len(items) :
          k # l => /\ items[k].ev # items[l].ev
                   /\ items[k].sn > 0 => items[k].sn # items[l].sn
    /\ stream = "recv" => buf = FreshBuf
    /\ (stream = "yielded" /\ Last(items).sn > 0)
       => /\ buf.data = arrived[Last(items).sn]
          /\ buf.read = buf.data.len
          /\ Last(items).ev = recvs

\* two different valid datagrams, the longer one first, gave two Ok items, each
\* with the values of its own datagram
C16_Witness ==
    /\ Len(items) = 2
    /\ items[1].kind = "Ok" /\ items[2].kind = "Ok"
    /\ arrived[1].hdrs = HdrsB /\ arrived[2].hdrs = HdrsA
    /\ items[1].location = "http://y" /\ items[1].usn = "uuid:456"
    /\ items[2].location = "http://x" /\ items[2].usn = "uuid:123"
    /\ buf.read = 60

\* the receive wait that closed the stream lasted no longer than `timeout`
WithinTimeout == stream = "Closed" => (closedAt >= started /\ closedAt - started <= timeout)

\* C17 as stated: with a consumer that keeps polling, once datagrams and
\* transport errors have stopped the stream reaches Closed, within `timeout` of
\* the start of its last receive wait.
C17_EventuallyClosed ==
    /\ (stream = "created") ~> (stream = "Closed")
    /\ []WithinTimeout

\* C17: with a consumer that keeps polling, once datagrams and transport errors
\* have stopped the stream reaches Closed, within `timeout` of the start of its
\* last receive wait, unless a debug build has panicked on a datagram that
\* filled the buffer; a release build always reaches Closed.
C17_ClosedOrDebugAbort ==
    /\ (stream = "created") ~> (stream = "Closed" \/ (stream = "panicked" /\ build = "debug"))
    /\ (stream = "created" /\ build = "release") ~> (stream = "Closed")
    /\ [](stream = "panicked" => \E k \in 1..Len(arrived) : arrived[k].len >= BufCap)
    /\ []WithinTimeout

\* after a decoded datagram and a later poll, the last wait started past time
\* zero and ran for the whole of a nonzero timeout before the timer closed it
C17_Witness ==
    /\ stream = "Closed"
    /\ closeCause = "timer"
    /\ items # <<>>
    /\ timeout > 0
    /\ started > 0
    /\ closedAt = started + timeout

\* the timer of the pending receive fires in this step
TimerStep == stream = "recv" /\ closeCause # "timer" /\ closeCause' = "timer"

\* C18: a receive that fails with an error of kind TimedOut, from the timer or
\* from the transport, closes the stream and yields nothing; no Err item ever
\* carries an error of kind TimedOut.
C18_TimedOutCloses ==
    /\ [][ (TimerStep \/ (ErrorStep /\ Last(errs') = "TimedOut"))
           => stream' = "Closed" /\ items' = items ]_vars
    /\ [](\A k \in 1..Len(items) :
             (items[k].kind = "Err" /\ items[k].sn = 0) => items[k].err[2] # "TimedOut")
    /\ [](Len(items) + Len(warnings) <= Len(arrived) + Len(errs))

\* the transport's own TimedOut closed a stream that had yielded items
C18_Witness ==
    /\ stream = "Closed"
    /\ closeCause = "transport"
    /\ Last(errs) = "TimedOut"
    /\ items # <<>>

\* C19: Closed is absorbing: a stream that has ended yields no further item and
\* makes no further receive, whatever reaches its address afterwards.
C19_ClosedAbsorbing ==
    [][ stream = "Closed"
        => /\ stream' = "Closed"
           /\ items' = items
           /\ recvs' = recvs
           /\ socket' = "released" /\ inq' = <<>> ]_vars

\* datagrams reached the address after the timer had closed the stream
C19_Witness ==
    /\ stream = "Closed"
    /\ closeCause = "timer"
    /\ lost > 0
    /\ items # <<>>

====
